---- MODULE Spec2Model ----
(***************************************************************************)
(* Shannon-Fano encoder of src/shannon_fano.py (class ShannonFanoEncoder   *)
(* and analyze_text) as a state machine.                                   *)
(*                                                                         *)
(* Representation.  A character is a one-character string, a text or a     *)
(* symbol is a sequence of characters (a pair-mode symbol has length 2),   *)
(* a code is a sequence of the bits "0" and "1".  A Python dict is the     *)
(* sequence of its items [k |-> key, v |-> value] in insertion order,      *)
(* because the code depends on that order (stable sort on line 110, first  *)
(* key on line 176).  A probability freq / total is the ratio              *)
(* [num |-> freq, den |-> total] and stands for the float nearest to it;   *)
(* entropy, average code length, efficiency and compression ratio are      *)
(* fixed-point numbers in thousandths.                                     *)
(***************************************************************************)
EXTENDS Integers, Sequences, FiniteSets

\* Bounds of the model.
MaxLen == 4
MaxBits == 3
MaxReuseLen == 3

Chars == {"a", "b", "c", " "}
Bit == {"0", "1"}

RECURSIVE SeqsUpTo(_, _)
SeqsUpTo(S, n) ==
  IF n = 0 THEN {<<>>}
  ELSE LET shorter == SeqsUpTo(S, n - 1)
       IN shorter \cup {Append(s, x) : s \in {t \in shorter : Len(t) = n - 1}, x \in S}

Texts == SeqsUpTo(Chars, MaxLen)
ReuseTexts == SeqsUpTo(Chars, MaxReuseLen)
BitStrings == SeqsUpTo(Bit, MaxBits)

VARIABLES
  text,                 \* self.text
  frequencies,          \* self.frequencies
  probabilities,        \* self.probabilities
  codes,                \* self.codes
  entropy,              \* self.entropy (thousandths of a bit)
  uniform_code_length,  \* self.uniform_code_length
  redundancy,           \* self.redundancy (thousandths of a bit)
  pairs,                \* the mode flag last given to calculate_frequencies
  avg_length,           \* analyze_text: avg_length (thousandths)
  efficiency,           \* analyze_text: efficiency (thousandths of a percent)
  encoded_text,         \* the value returned by the last encode_text
  bits,                 \* the argument of the last decode_text
  decoded_text,         \* the value returned by the last decode_text
  current_code,         \* decode_text: current_code, the buffer
  scanned,              \* decode_text: the number of bits the loop has taken
  compression_ratio,    \* analyze_text: result['compression_ratio'] (thousandths)
  raised,               \* an exception left the last call
  pc                    \* the last call that was made

vars == <<text, frequencies, probabilities, codes, entropy, uniform_code_length,
          redundancy, pairs, avg_length, efficiency, encoded_text, bits,
          decoded_text, current_code, scanned, compression_ratio, raised, pc>>

----------------------------------------------------------------------------
\* Python dict, as the sequence of its items in insertion order.

Item(k, v) == [k |-> k, v |-> v]

Has(d, k) == \E i \in 1..Len(d) : d[i].k = k

Get(d, k) == d[CHOOSE i \in 1..Len(d) : d[i].k = k].v

Put(d, k, v) ==
  IF Has(d, k)
  THEN [i \in 1..Len(d) |-> IF d[i].k = k THEN Item(k, v) ELSE d[i]]
  ELSE Append(d, Item(k, v))

KeySet(d) == {d[i].k : i \in 1..Len(d)}

\* Python slice s[a:b] with 0 <= a <= b (0-based, end clipped to len(s)).
Slice(s, a, b) == SubSeq(s, a + 1, IF b < Len(s) THEN b ELSE Len(s))

\* Variant of Counter: every key counted once (dict.fromkeys(list, 1)).
RECURSIVE Counter_Distinct(_)
Counter_Distinct(list) ==
  IF list = <<>> THEN <<>>
  ELSE Put(Counter_Distinct(SubSeq(list, 1, Len(list) - 1)), list[Len(list)], 1)

\* collections.Counter over a list: counts in order of first occurrence.
RECURSIVE Counter(_)
Counter(list) ==
  IF list = <<>> THEN <<>>
  ELSE LET c == Counter(SubSeq(list, 1, Len(list) - 1))
           x == list[Len(list)]
       IN Put(c, x, IF Has(c, x) THEN Get(c, x) + 1 ELSE 1)

\* The values of range(0, stop, 2), in order.
Range2(stop) ==
  [j \in 1..(IF stop <= 0 THEN 0 ELSE (stop + 1) \div 2) |-> 2 * (j - 1)]

\* The symbols of the text in single mode: iterating a str yields its characters.
CharsList(t) == [i \in 1..Len(t) |-> <<t[i]>>]

\* Variant of PairsList: the unpaired last character is dropped.
PairsList_NoPad(t) ==
  LET starts == SelectSeq(Range2(Len(t) - 1), LAMBDA i : i + 1 < Len(t))
  IN [j \in 1..Len(starts) |-> Slice(t, starts[j], starts[j] + 2)]

\* The symbols of the text in pair mode: windows 0-1, 2-3, ... and, for an odd
\* length, the last character followed by a space.
PairsList(t) ==
  LET starts == SelectSeq(Range2(Len(t) - 1), LAMBDA i : i + 1 < Len(t))
      windows == [j \in 1..Len(starts) |-> Slice(t, starts[j], starts[j] + 2)]
  IN IF Len(t) % 2 = 1 THEN Append(windows, <<t[Len(t)], " ">>) ELSE windows

RECURSIVE SumValues(_)
SumValues(d) == IF d = <<>> THEN 0 ELSE d[1].v + SumValues(Tail(d))

----------------------------------------------------------------------------
\* Floats.  A probability freq / total is kept as the ratio [num, den] it was
\* computed from, which names the float nearest to it.  The arithmetic of
\* divide_and_code is binary floating point, rounded to nearest (ties to even)
\* after every operation; Float(x) is [m |-> mantissa, e |-> exponent], the
\* number m * 2^e with 2^(Precision-1) <= |m| < 2^Precision, or m = 0.
\* Precision is 17 bits and not the 53 of a double: in binary the quotients
\* n/3, n/5, n/7 and n/9 repeat with periods 2, 4, 3 and 6, and 17 = 53 mod 12,
\* so every rounding falls on the same digits of the repeating pattern.

Rat(n, d) == [num |-> n, den |-> d]

Precision == 17

Pow2(n) == 2 ^ n

Abs(x) == IF x < 0 THEN 0 - x ELSE x

FZero == [m |-> 0, e |-> 0]

\* float('inf'): above every finite float.
FInf == [m |-> 1, e |-> 1024]

\* The least k >= 0 with n < 2^(Precision + k).
RECURSIVE ExcessBits(_)
ExcessBits(n) == IF n < Pow2(Precision) THEN 0 ELSE 1 + ExcessBits(n \div 2)

\* The float nearest to the integer M times 2^e.
RECURSIVE FRound(_, _)
FRound(M, e) ==
  IF M = 0 THEN FZero
  ELSE IF Abs(M) < Pow2(Precision - 1) THEN FRound(2 * M, e - 1)
  ELSE LET k == ExcessBits(Abs(M))
           q == Abs(M) \div Pow2(k)
           r == Abs(M) % Pow2(k)
           up == IF k > 0 /\ (2 * r > Pow2(k) \/ (2 * r = Pow2(k) /\ q % 2 = 1))
                 THEN 1 ELSE 0
           sign == IF M < 0 THEN 0 - 1 ELSE 1
       IN IF q + up = Pow2(Precision)
          THEN [m |-> sign * Pow2(Precision - 1), e |-> e + k + 1]
          ELSE [m |-> sign * (q + up), e |-> e + k]

\* The least s >= 0 with n * 2^s >= d * 2^(Precision-1), for 0 < n and 0 < d.
RECURSIVE ScaleFor(_, _)
ScaleFor(n, d) ==
  IF n >= d * Pow2(Precision - 1) THEN 0 ELSE 1 + ScaleFor(2 * n, d)

\* The float n / d of two ints, 0 <= n <= d and 0 < d.
FDiv(n, d) ==
  IF n = 0 THEN FZero
  ELSE LET s == ScaleFor(n, d)
           q == (n * Pow2(s)) \div d
           r == (n * Pow2(s)) % d
           up == IF 2 * r > d \/ (2 * r = d /\ q % 2 = 1) THEN 1 ELSE 0
       IN FRound(q + up, 0 - s)

\* The float a probability stands for.
Float(p) == FDiv(p.num, p.den)

FAdd(a, b) ==
  IF a.m = 0 THEN b
  ELSE IF b.m = 0 THEN a
  ELSE LET e == IF a.e < b.e THEN a.e ELSE b.e
       IN FRound(a.m * Pow2(a.e - e) + b.m * Pow2(b.e - e), e)

FNeg(a) == [m |-> 0 - a.m, e |-> a.e]

FSub(a, b) == FAdd(a, FNeg(b))

FAbs(a) == [m |-> Abs(a.m), e |-> a.e]

FLess(a, b) ==
  IF a.m = 0 THEN b.m > 0
  ELSE IF b.m = 0 THEN a.m < 0
  ELSE IF a.m < 0 /\ b.m > 0 THEN TRUE
  ELSE IF a.m > 0 /\ b.m < 0 THEN FALSE
  ELSE IF a.m > 0 THEN a.e < b.e \/ (a.e = b.e /\ a.m < b.m)
  ELSE a.e > b.e \/ (a.e = b.e /\ a.m < b.m)

\* 1000 * log2(n), rounded, for the counts the bounds allow.
Log2Milli(n) ==
  <<0, 1000, 1585, 2000, 2322, 2585, 2807, 3000, 3170, 3322, 3459, 3585>>[n]

\* Variant of CeilLog2: the logarithm rounded down (int() for math.ceil()).
RECURSIVE CeilLog2_Floor(_)
CeilLog2_Floor(k) == IF k <= 1 THEN 0 ELSE 1 + CeilLog2_Floor(k \div 2)

\* The least u with 2^u >= k: math.ceil(math.log2(k)) for k >= 1.
RECURSIVE CeilLog2(_)
CeilLog2(k) == IF k <= 1 THEN 0 ELSE 1 + CeilLog2((k + 1) \div 2)

----------------------------------------------------------------------------
\* The methods of ShannonFanoEncoder as functions of the fields they read.

\* calculate_frequencies: the new self.frequencies.
CalcFrequencies(t, p) == IF p THEN Counter(PairsList(t)) ELSE Counter(CharsList(t))

\* Variant of ProbabilitiesRaises: 1 / total computed before the loop.
ProbabilitiesRaises_Eager(freqs) == SumValues(freqs) = 0

\* calculate_probabilities: freq / total raises ZeroDivisionError when total is 0
\* and there is an item to divide.
ProbabilitiesRaises(freqs) == freqs # <<>> /\ SumValues(freqs) = 0

CalcProbabilities(freqs) ==
  LET total == SumValues(freqs)
  IN [i \in 1..Len(freqs) |-> Item(freqs[i].k, Rat(freqs[i].v, total))]

\* calculate_entropy: -sum(p * log2(p)) over the p > 0, in thousandths.
RECURSIVE SumPLogP(_)
SumPLogP(probs) ==
  IF probs = <<>> THEN 0
  ELSE LET p == probs[1].v
       IN (IF p.num > 0
           THEN (p.num * (Log2Milli(p.num) - Log2Milli(p.den))) \div p.den
           ELSE 0) + SumPLogP(Tail(probs))

CalcEntropy(probs) == 0 - SumPLogP(probs)

\* calculate_uniform_code_length
CalcUniformCodeLength(freqs) ==
  LET alphabet_size == Len(freqs)
  IN IF alphabet_size > 1 THEN CeilLog2(alphabet_size) ELSE 1

\* calculate_redundancy, in thousandths.
CalcRedundancy(uniform, ent) == uniform * 1000 - ent

\* Variant of SortedItems: an ascending sort reversed (sorted(...)[::-1]), which
\* reverses the order of items of equal probability.
RECURSIVE SortedItems_ReverseTies(_)
SortedItems_ReverseTies(items) ==
  IF items = <<>> THEN <<>>
  ELSE LET n == Len(items)
           rest == SortedItems_ReverseTies(SubSeq(items, 1, n - 1))
           x == items[n]
           before == SelectSeq(rest, LAMBDA y : FLess(Float(x.v), Float(y.v)))
           after == SelectSeq(rest, LAMBDA y : ~FLess(Float(x.v), Float(y.v)))
       IN before \o <<x>> \o after

\* sorted(items, key=lambda x: x[1], reverse=True): stable, so items of equal
\* probability keep their order.
RECURSIVE SortedItems(_)
SortedItems(items) ==
  IF items = <<>> THEN <<>>
  ELSE LET n == Len(items)
           rest == SortedItems(SubSeq(items, 1, n - 1))
           x == items[n]
           before == SelectSeq(rest, LAMBDA y : ~FLess(Float(y.v), Float(x.v)))
           after == SelectSeq(rest, LAMBDA y : FLess(Float(y.v), Float(x.v)))
       IN before \o <<x>> \o after

\* sum(item[1] for item in items): 0, then each float added in order, each
\* addition rounded (the plain left-to-right sum).
RECURSIVE SumProb(_)
SumProb(items) ==
  IF items = <<>> THEN FZero
  ELSE FAdd(SumProb(SubSeq(items, 1, Len(items) - 1)), Float(items[Len(items)].v))

\* divide_and_code, the scan for the split point: the loop from index i on.
RECURSIVE ScanSplit(_, _, _, _, _)
ScanSplit(items, total_prob, i, best_split, min_diff) ==
  IF i >= Len(items) THEN best_split
  ELSE LET left_prob == SumProb(SubSeq(items, 1, i))
           right_prob == FSub(total_prob, left_prob)
           diff == FAbs(FSub(left_prob, right_prob))
       IN IF FLess(diff, min_diff)
          THEN ScanSplit(items, total_prob, i + 1, i, diff)
          ELSE ScanSplit(items, total_prob, i + 1, best_split, min_diff)

BestSplit(items) == ScanSplit(items, SumProb(items), 1, 1, FInf)

\* Variant of DivideAndCode: the right group gets the left group's bit.
RECURSIVE DivideAndCode_SameBit(_, _, _)
DivideAndCode_SameBit(items, code_prefix, cs) ==
  IF Len(items) <= 1
  THEN IF items # <<>>
       THEN Put(cs, items[1].k, IF code_prefix # <<>> THEN code_prefix ELSE <<"0">>)
       ELSE cs
  ELSE LET best_split == BestSplit(items)
           left_group == SubSeq(items, 1, best_split)
           right_group == SubSeq(items, best_split + 1, Len(items))
       IN DivideAndCode_SameBit(right_group, Append(code_prefix, "0"),
            DivideAndCode_SameBit(left_group, Append(code_prefix, "0"), cs))

\* Variant of DivideAndCode: a lone symbol gets the prefix even when it is empty.
RECURSIVE DivideAndCode_NoZero(_, _, _)
DivideAndCode_NoZero(items, code_prefix, cs) ==
  IF Len(items) <= 1
  THEN IF items # <<>> THEN Put(cs, items[1].k, code_prefix) ELSE cs
  ELSE LET best_split == BestSplit(items)
           left_group == SubSeq(items, 1, best_split)
           right_group == SubSeq(items, best_split + 1, Len(items))
       IN DivideAndCode_NoZero(right_group, Append(code_prefix, "1"),
            DivideAndCode_NoZero(left_group, Append(code_prefix, "0"), cs))

\* Variant of DivideAndCode: a lone symbol always gets one more bit.
RECURSIVE DivideAndCode_PadLone(_, _, _)
DivideAndCode_PadLone(items, code_prefix, cs) ==
  IF Len(items) <= 1
  THEN IF items # <<>> THEN Put(cs, items[1].k, Append(code_prefix, "0")) ELSE cs
  ELSE LET best_split == BestSplit(items)
           left_group == SubSeq(items, 1, best_split)
           right_group == SubSeq(items, best_split + 1, Len(items))
       IN DivideAndCode_PadLone(right_group, Append(code_prefix, "1"),
            DivideAndCode_PadLone(left_group, Append(code_prefix, "0"), cs))

\* divide_and_code: self.codes after the call, given self.codes before it.
RECURSIVE DivideAndCode(_, _, _)
DivideAndCode(items, code_prefix, cs) ==
  IF Len(items) <= 1
  THEN IF items # <<>>
       THEN Put(cs, items[1].k, IF code_prefix # <<>> THEN code_prefix ELSE <<"0">>)
       ELSE cs
  ELSE LET best_split == BestSplit(items)
           left_group == SubSeq(items, 1, best_split)
           right_group == SubSeq(items, best_split + 1, Len(items))
       IN DivideAndCode(right_group, Append(code_prefix, "1"),
                        DivideAndCode(left_group, Append(code_prefix, "0"), cs))

\* divide_and_code: the calls made for one top-level call, each with the
\* sub-list and the prefix it is given.
RECURSIVE Calls(_, _)
Calls(items, code_prefix) ==
  {[items |-> items, code_prefix |-> code_prefix]} \cup
  (IF Len(items) <= 1 THEN {}
   ELSE LET best_split == BestSplit(items)
        IN Calls(SubSeq(items, 1, best_split), Append(code_prefix, "0")) \cup
           Calls(SubSeq(items, best_split + 1, Len(items)), Append(code_prefix, "1")))

\* Variant of ShannonFanoCoding: the bits are appended to the code a symbol
\* already has (codes[sym] += bit) instead of replacing it.
RECURSIVE AppendCodes(_, _)
AppendCodes(cs, fresh) ==
  IF fresh = <<>> THEN cs
  ELSE LET k == fresh[1].k
       IN AppendCodes(Put(cs, k, (IF Has(cs, k) THEN Get(cs, k) ELSE <<>>) \o fresh[1].v),
                      Tail(fresh))

ShannonFanoCoding_Accumulate(probs, cs) ==
  AppendCodes(cs, DivideAndCode(SortedItems(probs), <<>>, <<>>))

\* shannon_fano_coding: self.codes after the call.
ShannonFanoCoding(probs, cs) == DivideAndCode(SortedItems(probs), <<>>, cs)

\* calculate_average_code_length, in thousandths.
RECURSIVE SumLenProb(_, _)
SumLenProb(cs, probs) ==
  IF cs = <<>> THEN 0
  ELSE (IF Has(probs, cs[1].k)
        THEN LET p == Get(probs, cs[1].k)
             IN (Len(cs[1].v) * p.num * 1000) \div p.den
        ELSE 0) + SumLenProb(Tail(cs), probs)

CalcAverageCodeLength(cs, probs) == SumLenProb(cs, probs)

\* calculate_compression_efficiency, in thousandths of a percent.
CalcCompressionEfficiency(ent, avg) ==
  IF avg > 0 THEN (ent * 100000) \div avg ELSE 0

\* Variant of the lookups of encode_text: the loop ends at the first symbol
\* that has no entry.
RECURSIVE EncodeSymbols_StopAtMiss(_, _)
EncodeSymbols_StopAtMiss(symbols, cs) ==
  IF symbols = <<>> THEN <<>>
  ELSE IF Has(cs, symbols[1])
       THEN Get(cs, symbols[1]) \o EncodeSymbols_StopAtMiss(Tail(symbols), cs)
       ELSE <<>>

\* encode_text: the concatenation of the codes of the symbols found in the table.
RECURSIVE EncodeSymbols(_, _)
EncodeSymbols(symbols, cs) ==
  IF symbols = <<>> THEN <<>>
  ELSE (IF Has(cs, symbols[1]) THEN Get(cs, symbols[1]) ELSE <<>>)
       \o EncodeSymbols(Tail(symbols), cs)

EncodeText(t, cs) ==
  IF cs = <<>> THEN <<>>
  ELSE LET is_pairs == Len(cs) > 0 /\ Len(cs[1].k) = 2
       IN IF is_pairs THEN EncodeSymbols(PairsList(t), cs)
          ELSE EncodeSymbols(CharsList(t), cs)

\* decode_text: reverse_codes = {code: char for char, code in self.codes.items()}
RECURSIVE ReverseCodes(_)
ReverseCodes(cs) ==
  IF cs = <<>> THEN <<>>
  ELSE LET n == Len(cs)
       IN Put(ReverseCodes(SubSeq(cs, 1, n - 1)), cs[n].v, cs[n].k)

\* Variant of Emit: the space is stripped from any pair, not only at the end.
Emit_StripAny(t, decoded, decoded_pair) ==
  IF Len(decoded_pair) = 2
  THEN IF decoded_pair[2] = " " /\ Len(t) % 2 = 1
       THEN decoded \o <<decoded_pair[1]>>
       ELSE decoded \o decoded_pair
  ELSE decoded \o decoded_pair

\* decode_text: what one matched symbol appends to decoded.
Emit(t, decoded, decoded_pair) ==
  IF Len(decoded_pair) = 2
  THEN IF decoded_pair[2] = " " /\ Len(t) % 2 = 1 /\ Len(decoded) = Len(t) - 1
       THEN decoded \o <<decoded_pair[1]>>
       ELSE decoded \o decoded_pair
  ELSE decoded \o decoded_pair

\* Variant of ScanStep: the buffer is not cleared after a match.
ScanStep_NoClear(t, reverse_codes, decoded, buffer, bit) ==
  LET cur == Append(buffer, bit)
  IN IF Has(reverse_codes, cur)
     THEN [decoded |-> Emit(t, decoded, Get(reverse_codes, cur)), current_code |-> cur]
     ELSE [decoded |-> decoded, current_code |-> cur]

\* decode_text: the body of the loop for one bit; yields decoded and the buffer.
ScanStep(t, reverse_codes, decoded, buffer, bit) ==
  LET cur == Append(buffer, bit)
  IN IF Has(reverse_codes, cur)
     THEN [decoded |-> Emit(t, decoded, Get(reverse_codes, cur)), current_code |-> <<>>]
     ELSE [decoded |-> decoded, current_code |-> cur]

\* decode_text: the scan from bit i on; yields decoded and the buffer at the end.
RECURSIVE DecodeScan(_, _, _, _, _, _)
DecodeScan(t, reverse_codes, b, i, decoded, buffer) ==
  IF i > Len(b) THEN [decoded |-> decoded, current_code |-> buffer]
  ELSE LET st == ScanStep(t, reverse_codes, decoded, buffer, b[i])
       IN DecodeScan(t, reverse_codes, b, i + 1, st.decoded, st.current_code)

DecodeText(t, cs, b) ==
  IF cs = <<>> \/ b = <<>> THEN [decoded |-> <<>>, current_code |-> <<>>]
  ELSE DecodeScan(t, ReverseCodes(cs), b, 1, <<>>, <<>>)

\* get_statistics_table: self.probabilities[char] raises KeyError for a key of
\* self.frequencies that self.probabilities lacks.
StatisticsRaises(freqs, probs) == \E i \in 1..Len(freqs) : ~Has(probs, freqs[i].k)

\* analyze_text: len(encoded_text) / (len(text) * 8) if text else 0, in thousandths;
\* the division raises ZeroDivisionError when it is made with len(text) * 8 = 0.
CompressionRatioRaises(t) == t # <<>> /\ Len(t) * 8 = 0

CompressionRatio(t, enc) ==
  IF t # <<>> THEN (Len(enc) * 1000) \div (Len(t) * 8) ELSE 0

----------------------------------------------------------------------------
\* The state after ShannonFanoEncoder(text).

InitEncoder(T) ==
  /\ text \in T
  /\ frequencies = <<>>
  /\ probabilities = <<>>
  /\ codes = <<>>
  /\ entropy = 0
  /\ uniform_code_length = 0
  /\ redundancy = 0
  /\ pairs = FALSE
  /\ avg_length = 0
  /\ efficiency = 0
  /\ encoded_text = <<>>
  /\ bits = <<>>
  /\ decoded_text = <<>>
  /\ current_code = <<>>
  /\ scanned = 0
  /\ compression_ratio = 0
  /\ raised = FALSE
  /\ pc = "init"

Init == InitEncoder(Texts)

\* The calls, one action each.

calculate_frequencies(p) ==
  /\ frequencies' = CalcFrequencies(text, p)
  /\ pairs' = p
  /\ pc' = "calculate_frequencies"
  /\ UNCHANGED <<scanned, text, probabilities, codes, entropy, uniform_code_length,
                 redundancy, avg_length, efficiency, encoded_text, bits,
                 decoded_text, current_code, compression_ratio, raised>>

calculate_probabilities ==
  /\ raised' = ProbabilitiesRaises(frequencies)
  /\ probabilities' = IF ProbabilitiesRaises(frequencies) THEN probabilities
                      ELSE CalcProbabilities(frequencies)
  /\ pc' = "calculate_probabilities"
  /\ UNCHANGED <<scanned, text, frequencies, codes, entropy, uniform_code_length,
                 redundancy, pairs, avg_length, efficiency, encoded_text, bits,
                 decoded_text, current_code, compression_ratio>>

calculate_entropy ==
  /\ entropy' = CalcEntropy(probabilities)
  /\ pc' = "calculate_entropy"
  /\ UNCHANGED <<scanned, text, frequencies, probabilities, codes, uniform_code_length,
                 redundancy, pairs, avg_length, efficiency, encoded_text, bits,
                 decoded_text, current_code, compression_ratio, raised>>

calculate_uniform_code_length ==
  /\ uniform_code_length' = CalcUniformCodeLength(frequencies)
  /\ pc' = "calculate_uniform_code_length"
  /\ UNCHANGED <<scanned, text, frequencies, probabilities, codes, entropy, redundancy,
                 pairs, avg_length, efficiency, encoded_text, bits,
                 decoded_text, current_code, compression_ratio, raised>>

calculate_redundancy ==
  /\ redundancy' = CalcRedundancy(uniform_code_length, entropy)
  /\ pc' = "calculate_redundancy"
  /\ UNCHANGED <<scanned, text, frequencies, probabilities, codes, entropy,
                 uniform_code_length, pairs, avg_length, efficiency,
                 encoded_text, bits, decoded_text, current_code,
                 compression_ratio, raised>>

shannon_fano_coding ==
  /\ codes' = ShannonFanoCoding(probabilities, codes)
  /\ pc' = "shannon_fano_coding"
  /\ UNCHANGED <<scanned, text, frequencies, probabilities, entropy, uniform_code_length,
                 redundancy, pairs, avg_length, efficiency, encoded_text, bits,
                 decoded_text, current_code, compression_ratio, raised>>

calculate_average_code_length ==
  /\ avg_length' = CalcAverageCodeLength(codes, probabilities)
  /\ pc' = "calculate_average_code_length"
  /\ UNCHANGED <<scanned, text, frequencies, probabilities, codes, entropy,
                 uniform_code_length, redundancy, pairs, efficiency,
                 encoded_text, bits, decoded_text, current_code,
                 compression_ratio, raised>>

calculate_compression_efficiency ==
  /\ efficiency' = CalcCompressionEfficiency(
                     entropy, CalcAverageCodeLength(codes, probabilities))
  /\ pc' = "calculate_compression_efficiency"
  /\ UNCHANGED <<scanned, text, frequencies, probabilities, codes, entropy,
                 uniform_code_length, redundancy, pairs, avg_length,
                 encoded_text, bits, decoded_text, current_code,
                 compression_ratio, raised>>

encode_text ==
  /\ encoded_text' = EncodeText(text, codes)
  /\ pc' = "encode_text"
  /\ UNCHANGED <<scanned, text, frequencies, probabilities, codes, entropy,
                 uniform_code_length, redundancy, pairs, avg_length, efficiency,
                 bits, decoded_text, current_code, compression_ratio, raised>>

decode_text(b) ==
  /\ bits' = b
  /\ decoded_text' = DecodeText(text, codes, b).decoded
  /\ current_code' = DecodeText(text, codes, b).current_code
  /\ scanned' = IF codes = <<>> \/ b = <<>> THEN 0 ELSE Len(b)
  /\ pc' = "decode_text"
  /\ UNCHANGED <<text, frequencies, probabilities, codes, entropy,
                 uniform_code_length, redundancy, pairs, avg_length, efficiency,
                 encoded_text, compression_ratio, raised>>

get_statistics_table ==
  /\ raised' = StatisticsRaises(frequencies, probabilities)
  /\ pc' = "get_statistics_table"
  /\ UNCHANGED <<scanned, text, frequencies, probabilities, codes, entropy,
                 uniform_code_length, redundancy, pairs, avg_length, efficiency,
                 encoded_text, bits, decoded_text, current_code,
                 compression_ratio>>

\* analyze_text: building the result dict.
analyze_return ==
  /\ raised' = CompressionRatioRaises(text)
  /\ compression_ratio' = IF CompressionRatioRaises(text) THEN compression_ratio
                          ELSE CompressionRatio(text, encoded_text)
  /\ pc' = "done"
  /\ UNCHANGED <<scanned, text, frequencies, probabilities, codes, entropy,
                 uniform_code_length, redundancy, pairs, avg_length, efficiency,
                 encoded_text, bits, decoded_text, current_code>>

\* A call is made after the call named at returned without raising.
After(at) == ~raised /\ pc = at

\* analyze_text on a fresh encoder: the calls in the order of lines 271-303.  The
\* bit sequence handed to decode_text is the one encode_text returned, as in
\* analyze_text, or any other bit sequence a caller holds.
Next ==
  \/ After("init") /\ \E p \in BOOLEAN : calculate_frequencies(p)
  \/ After("calculate_frequencies") /\ calculate_probabilities
  \/ After("calculate_probabilities") /\ calculate_entropy
  \/ After("calculate_entropy") /\ calculate_uniform_code_length
  \/ After("calculate_uniform_code_length") /\ calculate_redundancy
  \/ After("calculate_redundancy") /\ shannon_fano_coding
  \/ After("shannon_fano_coding") /\ calculate_average_code_length
  \/ After("calculate_average_code_length") /\ calculate_compression_efficiency
  \/ After("calculate_compression_efficiency") /\ encode_text
  \/ After("encode_text") /\ \E b \in {encoded_text} \cup BitStrings : decode_text(b)
  \/ After("decode_text") /\ bits = encoded_text /\ get_statistics_table
  \/ After("get_statistics_table") /\ analyze_return

Spec == Init /\ [][Next]_vars

\* One encoder used by a caller that makes the table-building calls and
\* encode_text in any order, any number of times.
InitReuse == InitEncoder(ReuseTexts)

NextReuse ==
  \/ ~raised /\ \E p \in BOOLEAN : calculate_frequencies(p)
  \/ ~raised /\ calculate_probabilities
  \/ ~raised /\ shannon_fano_coding
  \/ ~raised /\ encode_text

SpecReuse == InitReuse /\ [][NextReuse]_vars

\* decode_text taken one bit at a time.  While the loop runs pc is "decode_scan"
\* and decoded_text holds the local decoded.

\* Lines 209-216: the early return, or the start of the loop.
decode_begin(b) ==
  /\ bits' = b
  /\ decoded_text' = <<>>
  /\ current_code' = <<>>
  /\ scanned' = 0
  /\ pc' = IF codes = <<>> \/ b = <<>> THEN "decode_text" ELSE "decode_scan"
  /\ UNCHANGED <<text, frequencies, probabilities, codes, entropy,
                 uniform_code_length, redundancy, pairs, avg_length, efficiency,
                 encoded_text, compression_ratio, raised>>

\* Lines 218-231: one pass of the loop.
decode_bit ==
  /\ scanned < Len(bits)
  /\ LET st == ScanStep(text, ReverseCodes(codes), decoded_text, current_code,
                        bits[scanned + 1])
     IN /\ decoded_text' = st.decoded
        /\ current_code' = st.current_code
  /\ scanned' = scanned + 1
  /\ UNCHANGED <<text, frequencies, probabilities, codes, entropy,
                 uniform_code_length, redundancy, pairs, avg_length, efficiency,
                 encoded_text, bits, compression_ratio, raised, pc>>

\* Line 233: the loop is over.
decode_return ==
  /\ scanned = Len(bits)
  /\ pc' = "decode_text"
  /\ UNCHANGED <<scanned, text, frequencies, probabilities, codes, entropy,
                 uniform_code_length, redundancy, pairs, avg_length, efficiency,
                 encoded_text, bits, decoded_text, current_code,
                 compression_ratio, raised>>

\* A fresh encoder driven as in test_basic_functionality (lines 16-26 of
\* src/test_shannon_fano.py), with the scan of decode_text taken bit by bit.
InitScan == InitEncoder(Texts)

NextScan ==
  \/ After("init") /\ \E p \in BOOLEAN : calculate_frequencies(p)
  \/ After("calculate_frequencies") /\ calculate_probabilities
  \/ After("calculate_probabilities") /\ shannon_fano_coding
  \/ After("shannon_fano_coding") /\ encode_text
  \/ After("encode_text") /\ decode_begin(encoded_text)
  \/ After("decode_scan") /\ decode_bit
  \/ After("decode_scan") /\ decode_return

SpecScan == InitScan /\ [][NextScan]_vars

\* Line 24: text is a plain attribute of the encoder, so a caller can bind it
\* to another string after the table was built (encoder.text = t).
assign_text(t) ==
  /\ text' = t
  /\ pc' = "assign_text"
  /\ UNCHANGED <<scanned, frequencies, probabilities, codes, entropy,
                 uniform_code_length, redundancy, pairs, avg_length, efficiency,
                 encoded_text, bits, decoded_text, current_code,
                 compression_ratio, raised>>

\* A table is built for one text and encode_text is then called with
\* self.text bound to another one.
InitEncode == InitEncoder(ReuseTexts)

NextEncode ==
  \/ After("init") /\ \E p \in BOOLEAN : calculate_frequencies(p)
  \/ After("calculate_frequencies") /\ calculate_probabilities
  \/ After("calculate_probabilities") /\ shannon_fano_coding
  \/ After("shannon_fano_coding") /\ \E t \in ReuseTexts : assign_text(t)
  \/ After("assign_text") /\ encode_text

SpecEncode == InitEncode /\ [][NextEncode]_vars

----------------------------------------------------------------------------
\* Properties.

\* a is a prefix of b, or equal to it.
IsPrefix(a, b) == Len(a) <= Len(b) /\ SubSeq(b, 1, Len(a)) = a

PrefixFree(cs) ==
  \A i, j \in 1..Len(cs) : i # j => ~IsPrefix(cs[i].v, cs[j].v)

\* shannon_fano_coding has been called (in Spec the code table is final from then on).
Coded ==
  pc \in {"shannon_fano_coding", "calculate_average_code_length",
          "calculate_compression_efficiency", "encode_text", "decode_text",
          "get_statistics_table", "done"}

\* decode_text has been called on what encode_text returned.
DecodedOwn ==
  /\ pc \in {"decode_text", "get_statistics_table", "done"}
  /\ bits = encoded_text

\* C1: on a fresh encoder, for every non-empty text and both modes, decoding the
\* encoded text gives back the text.
C1_RoundTrip == (DecodedOwn /\ text # <<>>) => decoded_text = text

C1_Witness ==
  /\ DecodedOwn /\ pairs /\ Len(text) = 3 /\ Len(codes) = 2
  /\ Len(encoded_text) = 2 /\ decoded_text = text

\* C2: the code table built on a fresh encoder gives every symbol of the
\* probability table a non-empty code, and no code is a prefix of, or equal to,
\* the code of another symbol.
C2_PrefixFree ==
  Coded => /\ KeySet(codes) = KeySet(probabilities)
           /\ Len(codes) = Len(probabilities)
           /\ \A i \in 1..Len(codes) : codes[i].v # <<>>
           /\ PrefixFree(codes)

C2_Witness ==
  /\ pc = "shannon_fano_coding" /\ Len(codes) = 3
  /\ \E i \in 1..Len(codes) : Len(codes[i].v) = 2

\* C3: a bit sequence that leaves bits in the buffer when the scan ends is
\* reported to the caller as a failure.
C3_CorruptedReported == (pc = "decode_text" /\ current_code # <<>>) => raised

\* C4: in pair mode the last symbol of an odd-length text is its last character
\* and a space; decoding strips the space from that symbol only, so the decoded
\* text has the length of the text, and every other pair ending in a space is
\* decoded whole.
C4_PairPadding ==
  (DecodedOwn /\ pairs) =>
    LET syms == PairsList(text)
        n == Len(syms)
        odd == Len(text) % 2 = 1
    IN /\ odd => syms[n] = <<text[Len(text)], " ">>
       /\ Len(decoded_text) = Len(text)
       /\ \A k \in 1..n :
            LET before == SubSeq(text, 1, 2 * (k - 1))
            IN Emit(text, before, syms[k]) =
                 before \o (IF odd /\ k = n THEN <<syms[k][1]>> ELSE syms[k])
       /\ decoded_text = text

C4_Witness ==
  /\ DecodedOwn /\ pairs /\ pc = "decode_text"
  /\ text = <<"a", " ", "b">>
  /\ decoded_text = <<"a", " ", "b">>

\* C5: for the empty text, in either mode, no call raises, the tables stay
\* empty, entropy is 0, encode_text and decode_text return the empty string and
\* analyze_text returns a compression ratio of 0.
C5_EmptyInput ==
  text = <<>> =>
    /\ ~raised
    /\ frequencies = <<>> /\ probabilities = <<>> /\ codes = <<>>
    /\ entropy = 0
    /\ encoded_text = <<>> /\ decoded_text = <<>>
    /\ compression_ratio = 0

C5_Witness == text = <<>> /\ pairs /\ pc = "done" /\ ~raised

\* C6, as stated: ceil(log2(k)) for k > 1 symbols, 1 for k = 1 and 0 for k = 0.
C6_Original ==
  pc = "calculate_uniform_code_length" =>
    LET k == Len(frequencies)
        u == uniform_code_length
    IN /\ k > 1 => (u >= 1 /\ Pow2(u - 1) < k /\ k <= Pow2(u))
       /\ k = 1 => u = 1
       /\ k = 0 => u = 0

\* C6, amended: ceil(log2(k)) for k > 1 symbols, and 1 for k = 1 and for k = 0.
C6_UniformLength ==
  pc = "calculate_uniform_code_length" =>
    LET k == Len(frequencies)
        u == uniform_code_length
    IN /\ k > 1 => (u >= 1 /\ Pow2(u - 1) < k /\ k <= Pow2(u))
       /\ k <= 1 => u = 1

C6_Witness ==
  pc = "calculate_uniform_code_length" /\ Len(frequencies) = 3
  /\ uniform_code_length = 2

\* The number of indices at which symbol s starts in the text, among the indices
\* in I (1-based), for symbols of length n.
Occurrences(s, I) == Cardinality({i \in I : SubSeq(text, i, i + Len(s) - 1) = s})

\* C7: the counts sum to len(text) in single mode and to ceil(len(text) / 2) in
\* pair mode; the pair-mode symbols are the windows at 0-1, 2-3, ... and, for an
\* odd length, the last character and a space, each with its number of
\* occurrences.
C7_FrequencySum ==
  pc # "init" =>
    LET n == Len(text)
        odd == n % 2 = 1
        starts == {i \in 1..n : i % 2 = 1 /\ i + 1 <= n}
        pad == <<text[n], " ">>
        windows == {SubSeq(text, i, i + 1) : i \in starts}
    IN IF pairs
       THEN /\ SumValues(frequencies) = (n + 1) \div 2
            /\ KeySet(frequencies) = windows \cup (IF odd THEN {pad} ELSE {})
            /\ \A j \in 1..Len(frequencies) :
                 frequencies[j].v = Occurrences(frequencies[j].k, starts)
                                    + (IF odd /\ frequencies[j].k = pad THEN 1 ELSE 0)
            /\ n = 0 => frequencies = <<>>
            /\ n = 1 => frequencies = <<Item(pad, 1)>>
       ELSE /\ SumValues(frequencies) = n
            /\ KeySet(frequencies) = {<<text[i]>> : i \in 1..n}
            /\ \A j \in 1..Len(frequencies) :
                 frequencies[j].v = Occurrences(frequencies[j].k, 1..n)

C7_Witness ==
  /\ pc = "calculate_frequencies" /\ pairs
  /\ text = <<"a", " ", "a">>
  /\ frequencies = <<Item(<<"a", " ">>, 2)>>

\* C8: a probability table of one symbol gives that symbol the code "0"; a text
\* of n copies of one character is encoded as n zero bits and decoded back.
C8_SingleSymbol ==
  /\ (Coded /\ Len(probabilities) = 1) => codes = <<Item(probabilities[1].k, <<"0">>)>>
  /\ (Coded /\ ~pairs /\ text # <<>> /\ \A i \in 1..Len(text) : text[i] = text[1]) =>
       /\ codes = <<Item(<<text[1]>>, <<"0">>)>>
       /\ pc \in {"encode_text", "decode_text", "get_statistics_table", "done"} =>
            encoded_text = [i \in 1..Len(text) |-> "0"]
       /\ DecodedOwn => decoded_text = text

C8_Witness ==
  /\ pc = "decode_text" /\ ~pairs /\ text = <<"a", "a", "a">>
  /\ bits = <<"0", "0", "0">> /\ encoded_text = bits /\ decoded_text = text

\* C9: a second shannon_fano_coding call right after the first, on the same
\* probability table, leaves every symbol with the code it had.
C9_Deterministic ==
  [][(pc = "shannon_fano_coding" /\ pc' = "shannon_fano_coding") => codes' = codes]_vars

C9_Witness ==
  /\ pc = "shannon_fano_coding" /\ Len(probabilities) = 3
  /\ KeySet(codes) = KeySet(probabilities)
  /\ ShannonFanoCoding(probabilities, codes) = codes

\* C10: on one encoder, after each shannon_fano_coding the code table holds
\* exactly the symbols of the current probability table and is prefix-free.
C10_RebuiltFromScratch ==
  pc = "shannon_fano_coding" =>
    /\ KeySet(codes) = KeySet(probabilities)
    /\ PrefixFree(codes)

\* The sum of the counts of items a..b of a sub-list (its probabilities are these
\* counts over one common total).
RECURSIVE SumNum(_, _, _)
SumNum(items, a, b) == IF a > b THEN 0 ELSE items[a].v.num + SumNum(items, a + 1, b)

\* |sum of items [0,i) - sum of items [i,end)|, times the common total.
SplitDiff(items, i) == Abs(SumNum(items, 1, i) - SumNum(items, i + 1, Len(items)))

\* The smallest split point that minimises the difference.
MinSplit(items) ==
  CHOOSE i \in 1..(Len(items) - 1) :
    /\ \A j \in 1..(Len(items) - 1) : SplitDiff(items, i) <= SplitDiff(items, j)
    /\ \A j \in 1..(i - 1) : SplitDiff(items, j) > SplitDiff(items, i)

\* C11: every sub-list of at least 2 symbols that divide_and_code is called on
\* is split at the smallest index that minimises the difference of the two
\* sums; the symbols before it get prefix + "0", the others prefix + "1".
C11_SplitRule ==
  Coded =>
    \A c \in Calls(SortedItems(probabilities), <<>>) :
      Len(c.items) >= 2 =>
        LET i == BestSplit(c.items)
        IN /\ i = MinSplit(c.items)
           /\ 1 <= i /\ i < Len(c.items)
           /\ \A j \in 1..Len(c.items) :
                IsPrefix(Append(c.code_prefix, IF j <= i THEN "0" ELSE "1"),
                         Get(codes, c.items[j].k))

\* The symbols of the text in the mode of the last calculate_frequencies.
Symbols == IF pairs THEN PairsList(text) ELSE CharsList(text)

\* The index of the first occurrence of symbol k among the symbols of the text.
FirstOccurrence(k) ==
  CHOOSE i \in 1..Len(Symbols) :
    Symbols[i] = k /\ \A j \in 1..(i - 1) : Symbols[j] # k

\* C12: the list given to the partitioning holds the symbols of the probability
\* table by descending probability, symbols of equal probability in the order
\* of their first occurrence in the text; the codes are assigned in that order.
C12_SortOrder ==
  Coded =>
    LET sorted_items == SortedItems(probabilities)
        n == Len(sorted_items)
    IN /\ n = Len(probabilities)
       /\ {sorted_items[i] : i \in 1..n} = {probabilities[i] : i \in 1..n}
       /\ \A i, j \in 1..n :
            i < j =>
              LET a == sorted_items[i]
                  b == sorted_items[j]
              IN \/ a.v.num * b.v.den > b.v.num * a.v.den
                 \/ /\ a.v.num * b.v.den = b.v.num * a.v.den
                    /\ FirstOccurrence(a.k) < FirstOccurrence(b.k)
       /\ [i \in 1..Len(codes) |-> codes[i].k] = [i \in 1..n |-> sorted_items[i].k]

C12_Witness ==
  /\ pc = "shannon_fano_coding" /\ ~pairs
  /\ text = <<"b", "a", "a", "c">>
  /\ [i \in 1..Len(codes) |-> codes[i].k] = <<<<"a">>, <<"b">>, <<"c">>>>

\* a is a prefix of b and shorter than b.
IsProperPrefix(a, b) == Len(a) < Len(b) /\ SubSeq(b, 1, Len(a)) = a

IsCode(x) == \E i \in 1..Len(codes) : codes[i].v = x

\* What decoding the k-th symbol of the text adds to the decoded text: the
\* symbol, without the pad when it is the padded last pair.
Emitted(k) ==
  IF pairs /\ Len(text) % 2 = 1 /\ k = Len(Symbols)
  THEN <<Symbols[k][1]>> ELSE Symbols[k]

\* The text that the first k symbols spell.
Spelled(k) ==
  IF pairs THEN SubSeq(text, 1, IF 2 * k < Len(text) THEN 2 * k ELSE Len(text))
  ELSE SubSeq(text, 1, k)

\* The number of symbols decoded so far.
Matches == IF pairs THEN (Len(decoded_text) + 1) \div 2 ELSE Len(decoded_text)

\* During the scan: the bits taken are the codes of the first k symbols of the
\* text, which have been emitted, followed by the buffer, which is empty or the
\* unfinished code of symbol k+1 and no code itself.
ScanInv ==
  pc \in {"decode_scan", "decode_text"} =>
    LET k == Matches
        taken == scanned - Len(current_code)
    IN /\ k <= Len(Symbols)
       /\ decoded_text = Spelled(k)
       /\ SubSeq(bits, 1, taken) = EncodeSymbols(SubSeq(Symbols, 1, k), codes)
       /\ current_code = SubSeq(bits, taken + 1, scanned)
       /\ current_code # <<>> =>
            /\ ~IsCode(current_code)
            /\ \E i \in 1..Len(codes) : IsProperPrefix(current_code, codes[i].v)
            /\ k < Len(Symbols)
            /\ IsProperPrefix(current_code, Get(codes, Symbols[k + 1]))
       /\ pc = "decode_text" => (current_code = <<>> /\ scanned = Len(bits))

\* One bit of the scan: a buffer that becomes a code is the code of the next
\* symbol of the text, that symbol is emitted and the buffer cleared; otherwise
\* the bit is kept in the buffer.
ScanMatch ==
  (pc = "decode_scan" /\ scanned' = scanned + 1) =>
    LET cur == Append(current_code, bits[scanned + 1])
        k == Matches + 1
    IN IF IsCode(cur)
       THEN /\ k <= Len(Symbols)
            /\ cur = Get(codes, Symbols[k])
            /\ decoded_text' = decoded_text \o Emitted(k)
            /\ current_code' = <<>>
       ELSE /\ decoded_text' = decoded_text
            /\ current_code' = cur

\* C13: while decode_text scans the bits that encode_text of the same fresh
\* encoder produced, the buffer is after every bit empty or a proper prefix of a
\* code and not a code; the k-th match emits the k-th symbol of the text and
\* clears the buffer; the buffer is empty when the scan ends.
C13_DecoderStates == []ScanInv /\ [][ScanMatch]_vars

C13_Witness ==
  /\ pc = "decode_scan" /\ ~pairs /\ Len(text) = 3
  /\ Matches = 1 /\ Len(current_code) = 1 /\ scanned < Len(bits)

\* The scan taken bit by bit ends with what decode_text returns.
ScanAgrees ==
  (pc = "decode_text" /\ scanned = Len(bits)) =>
    /\ decoded_text = DecodeText(text, codes, bits).decoded
    /\ current_code = DecodeText(text, codes, bits).current_code

\* The symbols encode_text looks up: pairs when the first key of the table is
\* a pair, characters otherwise.
Looked ==
  IF codes # <<>> /\ Len(codes[1].k) = 2 THEN PairsList(text) ELSE CharsList(text)

\* The looked-up symbols that have an entry, in text order.
InTable == SelectSeq(Looked, LAMBDA s : Has(codes, s))

RECURSIVE CodesOf(_)
CodesOf(symbols) ==
  IF symbols = <<>> THEN <<>>
  ELSE LET n == Len(symbols)
       IN CodesOf(SubSeq(symbols, 1, n - 1)) \o Get(codes, symbols[n])

\* C14: when a symbol of the text has no entry in the code table, encode_text
\* raises no error and its output is the concatenation, in text order, of the
\* codes of exactly the symbols that have an entry.
C14_LookupMiss ==
  (pc = "encode_text" /\ \E i \in 1..Len(Looked) : ~Has(codes, Looked[i])) =>
    /\ ~raised
    /\ encoded_text = CodesOf(InTable)

\* A symbol without an entry stands between two symbols that have one.
C14_Witness ==
  /\ pc = "encode_text"
  /\ \E i, j, k \in 1..Len(Looked) :
       /\ i < j /\ j < k
       /\ Has(codes, Looked[i]) /\ ~Has(codes, Looked[j]) /\ Has(codes, Looked[k])
  /\ encoded_text # <<>>

\* The longest code of the table.
MaxCodeLen == CHOOSE m \in 0..(2 * MaxLen) :
  /\ \A i \in 1..Len(codes) : Len(codes[i].v) <= m
  /\ \E i \in 1..Len(codes) : Len(codes[i].v) = m

\* The sum over the first n codes of 2^(-len(code)), in units of 2^(-m).
RECURSIVE KraftSum(_, _)
KraftSum(n, m) ==
  IF n = 0 THEN 0 ELSE KraftSum(n - 1, m) + 2 ^ (m - Len(codes[n].v))

\* x is a code or a proper prefix of one.
InTree(x) == \E i \in 1..Len(codes) : IsPrefix(x, codes[i].v)

\* The proper prefixes of the codes, the empty one included.
ProperPrefixes ==
  UNION {{SubSeq(codes[i].v, 1, n) : n \in 0..(Len(codes[i].v) - 1)} :
         i \in 1..Len(codes)}

\* C15: the code table a fresh encoder builds for at least 2 symbols is a full
\* binary tree: the sum of 2^(-len(code)) is 1, every proper prefix of a code
\* extended by "0" and by "1" is a code or a proper prefix of one, and the
\* buffer decode_text is left with, whatever the bits, is empty or a proper
\* prefix of a code.
C15_CompleteCode ==
  (Coded /\ Len(codes) >= 2) =>
    /\ KraftSum(Len(codes), MaxCodeLen) = 2 ^ MaxCodeLen
    /\ \A x \in ProperPrefixes : InTree(Append(x, "0")) /\ InTree(Append(x, "1"))
    /\ pc = "decode_text" =>
         \/ current_code = <<>>
         \/ \E i \in 1..Len(codes) : IsProperPrefix(current_code, codes[i].v)

\* Three codes of unequal length, and a scan of other bits than the encoder's
\* own that stops inside a code.
C15_Witness ==
  /\ pc = "decode_text" /\ Len(codes) = 3
  /\ \E i \in 1..Len(codes) : Len(codes[i].v) = 1
  /\ bits # encoded_text /\ current_code # <<>>

====
